---------------------------- MODULE Spec2Model ----------------------------
(***************************************************************************)
(* Robot-eye animation engine of src/eye_animation.ino: the expression     *)
(* catalog, the non-blocking transition engine with its chained sequences, *)
(* the auto-blink and demo triggers and the serial command dispatcher.     *)
(*                                                                         *)
(* Times are milliseconds of the millis() clock.  The `float' fields (lid, *)
(* intensity, the interpolation factor t) are IEEE-754 binary32 values,    *)
(* kept as <<sign, mantissa, exponent>> with a 24-bit normalised mantissa, *)
(* and every float operation rounds to nearest-even as the hardware does.  *)
(*                                                                         *)
(* The widths of int and unsigned long depend on the board: build.int and  *)
(* build.long are their numbers of bits; build.fma tells whether the       *)
(* compiler contracted a + (b - a) * t to a fused multiply-add.  An        *)
(* unsigned long u below 2^31 is kept as u; one from 2^31 up is kept as    *)
(* the negative integer with the same low 32 bits (u - 2^build.long, which *)
(* is what an int converts from), and ULongValueGeq and ULongToFloat read  *)
(* it as the unsigned value.                                               *)
(***************************************************************************)
EXTENDS Integers, Sequences, FiniteSets, TLC

(***************************************************************************)
(* binary32 arithmetic                                                     *)
(***************************************************************************)
Pow2(n) == 2 ^ n

\* Number of significant bits of a natural number below 2^31 (binary search).
BitLen(n) ==
  IF n < 32768 THEN IF n < 128 THEN IF n < 8 THEN IF n < 2 THEN IF n < 1 THEN 0
          ELSE 1
        ELSE IF n < 4 THEN 2
          ELSE 3
      ELSE IF n < 32 THEN IF n < 16 THEN 4
          ELSE 5
        ELSE IF n < 64 THEN 6
          ELSE 7
    ELSE IF n < 2048 THEN IF n < 512 THEN IF n < 256 THEN 8
          ELSE 9
        ELSE IF n < 1024 THEN 10
          ELSE 11
      ELSE IF n < 8192 THEN IF n < 4096 THEN 12
          ELSE 13
        ELSE IF n < 16384 THEN 14
          ELSE 15
  ELSE IF n < 8388608 THEN IF n < 524288 THEN IF n < 131072 THEN IF n < 65536 THEN 16
          ELSE 17
        ELSE IF n < 262144 THEN 18
          ELSE 19
      ELSE IF n < 2097152 THEN IF n < 1048576 THEN 20
          ELSE 21
        ELSE IF n < 4194304 THEN 22
          ELSE 23
    ELSE IF n < 134217728 THEN IF n < 33554432 THEN IF n < 16777216 THEN 24
          ELSE 25
        ELSE IF n < 67108864 THEN 26
          ELSE 27
      ELSE IF n < 536870912 THEN IF n < 268435456 THEN 28
          ELSE 29
        ELSE IF n < 1073741824 THEN 30
          ELSE 31

FZero == <<0, 0, 0>>

IsZero(f) == f[2] = 0

\* A 24-bit quotient that a round-up carried to 2^24 is renormalised.
FNorm(s, e, q) == IF q = 16777216 THEN <<s, 8388608, e + 1>> ELSE <<s, q, e>>

\* Round to nearest, ties to even: q is the kept part, r the dropped bits,
\* half the weight of the first dropped bit.
FRoundQ(s, e, q, r, half, sticky) ==
  FNorm(s, e, IF r > half \/ (r = half /\ (sticky \/ q % 2 = 1)) THEN q + 1 ELSE q)

FRoundN(s, n, e, sticky, L) ==
  IF L <= 24 THEN <<s, n * Pow2(24 - L), e - (24 - L)>>
  ELSE FRoundQ(s, e + (L - 24), n \div Pow2(L - 24), n % Pow2(L - 24), Pow2(L - 25), sticky)

\* The binary32 nearest (ties to even) to (-1)^s * v * 2^e, where v = n when
\* sticky is FALSE and n < v < n + 1 when sticky is TRUE.
FRound(s, n, e, sticky) ==
  IF n = 0 THEN FZero ELSE FRoundN(s, n, e, sticky, BitLen(n))

\* (float)i for an integer i.
FromInt(i) == IF i < 0 THEN FRound(1, -i, 0, FALSE) ELSE FRound(0, i, 0, FALSE)

FNeg(a) == IF IsZero(a) THEN a ELSE <<1 - a[1], a[2], a[3]>>

\* X and Y are the aligned magnitudes (three guard bits), st tells that bits
\* of the smaller operand were shifted out; the sum is rounded once.
FAddXY(sh, sl, e, X, Y, st) ==
  FRound(IF sh = sl \/ st \/ X >= Y THEN sh ELSE sl,
         IF sh = sl THEN X + Y
         ELSE IF st THEN X - Y - 1
         ELSE IF X >= Y THEN X - Y
         ELSE Y - X,
         e, st)

\* hi has the larger exponent, d is the difference of the exponents.
FAddAligned(hi, lo, d) ==
  FAddXY(hi[1], lo[1], hi[3] - 3, hi[2] * 8,
         IF d <= 3 THEN lo[2] * Pow2(3 - d)
         ELSE IF d >= 27 THEN 0
         ELSE (lo[2] * 8) \div Pow2(d),
         IF d <= 3 THEN FALSE
         ELSE IF d >= 27 THEN TRUE
         ELSE (lo[2] * 8) % Pow2(d) # 0)

\* a + b in binary32.
FAdd(a, b) ==
  IF IsZero(a) THEN b
  ELSE IF IsZero(b) THEN a
  ELSE IF a[3] >= b[3] THEN FAddAligned(a, b, a[3] - b[3])
  ELSE FAddAligned(b, a, b[3] - a[3])

FSub(a, b) == FAdd(a, FNeg(b))

\* The 48-bit product high * 2^24 + low of two mantissas, rounded once.
FMulRound(s, e, high, low) ==
  FRound(s, high * 4 + (low \div 4194304), e + 22, low % 4194304 # 0)

\* mid and low0 are the partial products of the 12-bit halves.
FMulParts(s, e, top, mid, low0) ==
  FMulRound(s, e,
            top + (mid \div 4096) + (((mid % 4096) * 4096 + low0) \div 16777216),
            ((mid % 4096) * 4096 + low0) % 16777216)

\* a * b in binary32.
FMul(a, b) ==
  IF IsZero(a) \/ IsZero(b) THEN FZero
  ELSE FMulParts((a[1] + b[1]) % 2, a[3] + b[3],
                 (a[2] \div 4096) * (b[2] \div 4096),
                 (a[2] \div 4096) * (b[2] % 4096) + (a[2] % 4096) * (b[2] \div 4096),
                 (a[2] % 4096) * (b[2] % 4096))

\* Long division by m, six quotient bits a stride: acc holds the quotient
\* bits so far, rem the remainder; the last stride rounds.
FDivLast(s, e, m, acc, rem) ==
  FRound(s, acc * 64 + (rem * 64) \div m, e, (rem * 64) % m # 0)

FDivNext(s, e, m, acc, rem) ==
  FDivLast(s, e, m, acc * 64 + (rem * 64) \div m, (rem * 64) % m)

FDivFirst(s, e, m, acc, rem) ==
  FDivNext(s, e, m, acc * 64 + (rem * 64) \div m, (rem * 64) % m)

\* a / b in binary32 (b # 0): 25 quotient bits, the remainder as sticky bit.
FDiv(a, b) ==
  IF IsZero(a) THEN FZero
  ELSE FDivFirst((a[1] + b[1]) % 2, a[3] - b[3] - 25, b[2],
                 (a[2] * 128) \div b[2], (a[2] * 128) % b[2])

\* The exact 48-bit product of two mantissas as two 24-bit limbs.
ProdMid(a, b) == (a \div 4096) * (b % 4096) + (a % 4096) * (b \div 4096)

ProdLow(a, b) == ((ProdMid(a, b) % 4096) * 4096 + (a % 4096) * (b % 4096)) % 16777216

ProdHigh(a, b) ==
  (a \div 4096) * (b \div 4096) + (ProdMid(a, b) \div 4096)
    + (((ProdMid(a, b) % 4096) * 4096 + (a % 4096) * (b % 4096)) \div 16777216)

\* Exact integers of up to 96 bits, kept as four 24-bit limbs, the least
\* significant first.
BigShlBits(v, r, c) ==
  <<(v[1] % c) * r,
    (v[1] \div c) + (v[2] % c) * r,
    (v[2] \div c) + (v[3] % c) * r,
    (v[3] \div c) + (v[4] % c) * r>>

BigShlLimbs(v, q) ==
  IF q = 0 THEN v
  ELSE IF q = 1 THEN <<0, v[1], v[2], v[3]>>
  ELSE <<0, 0, v[1], v[2]>>

\* v * 2^k for 0 <= k < 72 and v * 2^k < 2^96.
BigShl(v, k) == BigShlLimbs(BigShlBits(v, Pow2(k % 24), Pow2(24 - (k % 24))), k \div 24)

BigGeq(a, b) ==
  IF a[4] # b[4] THEN a[4] > b[4]
  ELSE IF a[3] # b[3] THEN a[3] > b[3]
  ELSE IF a[2] # b[2] THEN a[2] > b[2]
  ELSE a[1] >= b[1]

\* a + sg * b for sg = 1, or sg = -1 and a >= b; c1, c2, c3 are the carries
\* (or borrows) out of the limbs.
BigSum4(a, b, sg, c1, c2, c3) ==
  <<(a[1] + sg * b[1]) % 16777216, (a[2] + sg * b[2] + c1) % 16777216,
    (a[3] + sg * b[3] + c2) % 16777216, a[4] + sg * b[4] + c3>>

BigSum3(a, b, sg, c1, c2) ==
  BigSum4(a, b, sg, c1, c2, (a[3] + sg * b[3] + c2) \div 16777216)

BigSum2(a, b, sg, c1) ==
  BigSum3(a, b, sg, c1, (a[2] + sg * b[2] + c1) \div 16777216)

BigSum(a, b, sg) == BigSum2(a, b, sg, (a[1] + sg * b[1]) \div 16777216)

\* The float nearest to (-1)^s * V * 2^e, where V is the integer whose
\* highest limb is t at index i and nxt the limb below it; st tells that
\* something lies below these two limbs.  sh bits of nxt are kept beside t.
BigRoundTop(s, e, i, t, nxt, st, sh) ==
  FRound(s, t * Pow2(sh) + (nxt \div Pow2(24 - sh)), e + 24 * (i - 1) - sh,
         st \/ (nxt % Pow2(24 - sh)) # 0)

BigRoundAt(s, e, i, t, nxt, st) ==
  BigRoundTop(s, e, i, t, nxt, st, IF BitLen(t) <= 6 THEN 24 ELSE 30 - BitLen(t))

\* The float nearest to (-1)^s * (v + f) * 2^e, where 0 < f < 1 when sticky
\* is TRUE and f = 0 otherwise (v is 2^24 or more when sticky is TRUE).
BigRound(s, v, e, sticky) ==
  IF v[4] # 0 THEN BigRoundAt(s, e, 4, v[4], v[3], sticky \/ v[2] # 0 \/ v[1] # 0)
  ELSE IF v[3] # 0 THEN BigRoundAt(s, e, 3, v[3], v[2], sticky \/ v[1] # 0)
  ELSE IF v[2] # 0 THEN BigRoundAt(s, e, 2, v[2], v[1], sticky)
  ELSE FRound(s, v[1], e, sticky)

\* The float nearest to (-1)^sp * P * 2^e + (-1)^sz * Z * 2^e, plus, when
\* sticky is TRUE, a fraction of the unit in the direction of the Z term (Z
\* is then 0 or 1 and P large).
FmaSum(sp, P, sz, Z, e, sticky) ==
  IF sp = sz THEN BigRound(sp, BigSum(P, Z, 1), e, sticky)
  ELSE IF BigGeq(P, Z) THEN BigRound(sp, BigSum(P, Z, -1), e, sticky)
  ELSE BigRound(sz, BigSum(Z, P, -1), e, sticky)

\* P = hi * 2^24 + lo is the product of the mantissas, ep its exponent and
\* d the exponent of z above ep.  A z whose last bit lies 50 or more bits
\* above that of P absorbs the product; a z below a quarter of the last bit
\* of P only decides the rounding of the product.
FmaAligned(sp, hi, lo, ep, z, d) ==
  IF d >= 50 THEN z
  ELSE IF d <= -26
  THEN FmaSum(sp, BigShl(<<lo, hi, 0, 0>>, 2), z[1],
              IF sp = z[1] THEN <<0, 0, 0, 0>> ELSE <<1, 0, 0, 0>>, ep - 2, TRUE)
  ELSE IF d >= 0
  THEN FmaSum(sp, <<lo, hi, 0, 0>>, z[1], BigShl(<<z[2], 0, 0, 0>>, d), ep, FALSE)
  ELSE FmaSum(sp, BigShl(<<lo, hi, 0, 0>>, -d), z[1], <<z[2], 0, 0, 0>>, z[3], FALSE)

\* fmaf(x, y, z): x * y + z with one rounding, as a fused multiply-add
\* instruction computes it.
FFma(x, y, z) ==
  IF IsZero(x) \/ IsZero(y) THEN z
  ELSE IF IsZero(z) THEN FMul(x, y)
  ELSE FmaAligned((x[1] + y[1]) % 2, ProdHigh(x[2], y[2]), ProdLow(x[2], y[2]),
                  x[3] + y[3], z, z[3] - (x[3] + y[3]))

\* x * y + z as the build evaluates it: contracted to one fused multiply-add
\* when fused is TRUE, otherwise the product is rounded before the sum.
MulAdd(x, y, z, fused) == IF fused THEN FFma(x, y, z) ELSE FAdd(z, FMul(x, y))

\* (int16_t)f: conversion of a float to an integer truncates toward zero.
FMagnitude(f) ==
  IF f[3] >= 0 THEN f[2] * Pow2(f[3])
  ELSE IF f[3] <= -24 THEN 0
  ELSE f[2] \div Pow2(-f[3])

FTrunc(f) ==
  IF IsZero(f) THEN 0
  ELSE IF f[1] = 1 THEN -FMagnitude(f)
  ELSE FMagnitude(f)

\* The float nearest to the decimal literal num/den, as stored in a `float'
\* parameter.
FLit(num, den) == FDiv(FromInt(num), FromInt(den))

(***************************************************************************)
(* Integer widths                                                          *)
(***************************************************************************)
\* The boards the README names: the AVR boards (Uno, Nano, Mega) have a
\* 16-bit int, the ESP32 a 32-bit one; unsigned long has 32 bits on both.
\* On an LP64 machine int has 32 bits and unsigned long 64.  The AVR boards
\* compute floats in software, one rounding an operation; where the
\* processor has a fused multiply-add (the ESP32, an LP64 machine with FMA)
\* the compiler may or may not use it for a + (b - a) * t.
Avr == [int |-> 16, long |-> 32, fma |-> FALSE]
Esp32 == [int |-> 32, long |-> 32, fma |-> FALSE]
Esp32Fma == [int |-> 32, long |-> 32, fma |-> TRUE]
Lp64 == [int |-> 32, long |-> 64, fma |-> FALSE]
Lp64Fma == [int |-> 32, long |-> 64, fma |-> TRUE]

\* (int)n for the long n that Serial.parseInt() returns: the low bits of n,
\* read as a signed number.
ToIntLow(m, bits) == IF m >= Pow2(bits - 1) THEN m - Pow2(bits) ELSE m

ToInt(n, bits) == IF bits >= 32 THEN n ELSE ToIntLow(n % Pow2(bits), bits)

\* a >= b for two unsigned long values.
ULongValueGeq(a, b) == IF (a < 0) = (b < 0) THEN a >= b ELSE a < 0

\* (float)u for an unsigned long u.  A u from 2^31 up, kept as d < 0, is
\* 2^bits + d: with 32 bits its upper 24 bits are 2^24 + d \div 256 and the 8
\* bits below them are rounded away; with 64 bits it is within 2^31 of 2^64
\* and rounds to 2^64.
ULongToFloat(d, bits) ==
  IF d >= 0 THEN FromInt(d)
  ELSE IF bits = 32 THEN FRoundQ(0, 8, 16777216 + (d \div 256), d % 256, 128, FALSE)
  ELSE <<0, 8388608, bits - 23>>


(***************************************************************************)
(* Display geometry and the Expression enumeration                         *)
(***************************************************************************)
SCREEN_WIDTH == 128
SCREEN_HEIGHT == 64
REF_EYE_W == 40
REF_EYE_H == 40
REF_SPACE == 10
CENTER_X_LEFT == SCREEN_WIDTH \div 2 - REF_EYE_W \div 2 - REF_SPACE \div 2
CENTER_X_RIGHT == SCREEN_WIDTH \div 2 + REF_EYE_W \div 2 + REF_SPACE \div 2
CENTER_Y == SCREEN_HEIGHT \div 2

IDLE == 0
HAPPY == 1
SAD == 2
ANGRY == 3
SURPRISED == 4
BLINK == 5
LOOK_LEFT == 6
LOOK_RIGHT == 7
CONFUSED == 8
BORED == 9
SCARED == 10
SLEEPY == 11
ASLEEP == 12
WAKEUP == 13

Expressions == IDLE..WAKEUP

\* (int16_t)(ref * p) for the size factors of the catalog, p = pct / 100.
\* Every factor used is a multiple of 0.05 and ref is 40: the floating-point
\* product rounds to the integer ref * pct / 100, which the cast keeps.
Scale(ref, pct) == (ref * pct) \div 100

\* setEyeState: one eye's renderable state from its eight inputs.
setEyeState(cx, cy, w, h, pdx, pdy, lid, intensity) ==
  [x |-> cx, y |-> cy, w |-> w, h |-> h, pupil_dx |-> pdx, pupil_dy |-> pdy,
   lid |-> lid, intensity |-> intensity]

\* Zero-initialised EyeState (a global before its first assignment).
ZeroEye == setEyeState(0, 0, 0, 0, 0, 0, FZero, FZero)

\* The eyes as setup() draws them before the wakeup: closed.
ClosedLeft ==
  setEyeState(CENTER_X_LEFT, CENTER_Y + 4, Scale(REF_EYE_W, 80), Scale(REF_EYE_H, 40),
              0, 0, FLit(10, 10), FLit(1, 10))
ClosedRight ==
  setEyeState(CENTER_X_RIGHT, CENTER_Y + 4, Scale(REF_EYE_W, 80), Scale(REF_EYE_H, 40),
              0, 0, FLit(10, 10), FLit(1, 10))

\* A faulty lerp_i for comparison: the result is rounded to the nearest
\* integer instead of truncated.
lerp_iRounded(a, b, t, fused) ==
  IF MulAdd(FromInt(b - a), t, FromInt(a), fused)[1] = 1
  THEN FTrunc(FSub(MulAdd(FromInt(b - a), t, FromInt(a), fused), FLit(5, 10)))
  ELSE FTrunc(FAdd(MulAdd(FromInt(b - a), t, FromInt(a), fused), FLit(5, 10)))

\* lerp and lerp_i, evaluated in float as the code does: a + (b - a) * t,
\* with the multiplication and the addition fused or not as the build has
\* them.
lerp(a, b, t, fused) == MulAdd(FSub(b, a), t, a, fused)
lerp_i(a, b, t, fused) == FTrunc(MulAdd(FromInt(b - a), t, FromInt(a), fused))

(***************************************************************************)
(* drawEye.  It only writes the display buffer; what is modelled is the    *)
(* geometry it computes.  Its expressions with the literals 1.0 and 0.45   *)
(* are evaluated in `double', which is binary32 on AVR boards and binary64 *)
(* elsewhere: wide tells which.                                            *)
(***************************************************************************)
FOne == FromInt(1)

\* constrain(s.lid, 0.0, 1.0).
ConstrainLid(f) ==
  IF IsZero(f) \/ f[1] = 1 THEN FZero
  ELSE IF f[3] > -23 \/ (f[3] = -23 /\ f[2] > 8388608) THEN FOne
  ELSE f

\* s.h * (1.0 - lid) in binary32, cast to int16_t.
HeightNarrow(h, lid) == FTrunc(FMul(FromInt(h), FSub(FOne, lid)))

\* (h * m) / 4096, as quotient and remainder, for 0 <= h <= 2^15 and
\* 0 <= m < 2^24.
WideProdHigh(h, m) == h * (m \div 4096) + (h * (m % 4096)) \div 4096

WideProdLow(h, m) == (h * (m % 4096)) % 4096

\* (int16_t)(h * (1.0 - lid)) in binary64 for 0 < h <= 2^15 and the float
\* lid = m * 2^-k, 2^23 <= m < 2^24, 0 < lid <= 1.  A lid of 2^-54 or less
\* is lost in 1.0 - lid, which rounds to 1.0: the height is h.  Any larger
\* lid gives a double below h, and floor(h - h * m / 2^k) after the cast:
\* the exact value is an integer or at least 2^-38 short of one (h * m is
\* below 2^39, so it is at least 2^-30 short when k > 38), and the doubles
\* below 2^15 are at most 2^-38 apart, so rounding, which moves a value by
\* half that at most, never reaches the integer above.
HeightWideOf(h, m, k) ==
  IF k > 77 \/ (k = 77 /\ m = 8388608) THEN h
  ELSE IF k >= 40 THEN h - 1
  ELSE h - WideProdHigh(h, m) \div Pow2(k - 12)
         - (IF WideProdHigh(h, m) % Pow2(k - 12) = 0 /\ WideProdLow(h, m) = 0
            THEN 0 ELSE 1)

\* s.h * (1.0 - lid) in binary64, cast to int16_t (the cast truncates
\* toward zero, and rounding is symmetric in the sign of h).
HeightWide(h, lid) ==
  IF IsZero(lid) \/ h = 0 THEN h
  ELSE IF h < 0 THEN -HeightWideOf(-h, lid[2], -lid[3])
  ELSE HeightWideOf(h, lid[2], -lid[3])

AtLeast(n, lo) == IF n < lo THEN lo ELSE n

Smaller(a, b) == IF a < b THEN a ELSE b

\* A faulty clamp for comparison: only the upper limit is applied.
ConstrainUpper(x, lo, hi) == IF x > hi THEN hi ELSE x

\* constrain(x, lo, hi).
Constrain(x, lo, hi) == IF x < lo THEN lo ELSE IF x > hi THEN hi ELSE x

\* Lines 107-108: the height drawn, never below 2.
DrawnHeight(s, wide) ==
  AtLeast(IF wide THEN HeightWide(s.h, ConstrainLid(s.lid))
          ELSE HeightNarrow(s.h, ConstrainLid(s.lid)), 2)

\* Lines 116-119 for the half-dimensions rx and visible_ry: 0.45 times the
\* smaller one, cast to int16_t, never below 1.  (min(rx, visible_ry) is at
\* most 32767, for which the product with 0.45 truncates to the same integer
\* in binary32 and binary64.)
PupilMax(rx, visible_ry) == AtLeast((Smaller(rx, visible_ry) * 45) \div 100, 1)

\* The pupil of drawEye(s) given the height h drawn: half-dimensions, limit
\* and the offsets actually drawn (lines 116-123).
DrawnPupil(s, h) ==
  [rx |-> s.w \div 2, visible_ry |-> h \div 2,
   pupilMax |-> PupilMax(s.w \div 2, h \div 2),
   pdx |-> Constrain(s.pupil_dx, -PupilMax(s.w \div 2, h \div 2), PupilMax(s.w \div 2, h \div 2)),
   pdy |-> Constrain(s.pupil_dy, -PupilMax(s.w \div 2, h \div 2), PupilMax(s.w \div 2, h \div 2))]

drawEye(s, wide) == DrawnPupil(s, DrawnHeight(s, wide))

(***************************************************************************)
(* setExpression.  The engine state is handled as a record s whose fields  *)
(* are the sketch's globals; now is the value millis() returns.            *)
(***************************************************************************)
\* A faulty guard for comparison: every request is accepted, also the one
\* for the expression the engine is already moving into.
AcceptsAlways(s, exp) == TRUE

\* A faulty guard for comparison: no request interrupts a transition.
AcceptsAtRest(s, exp) == ~s.inTransition

\* Line 145: a request is dropped when the engine is already in transition
\* into the same expression.
Accepts(s, exp) == ~(s.inTransition /\ exp = s.currentExpression)

\* The switch of setExpression: the targets (and, for BLINK and WAKEUP, the
\* duration) the catalog sets for exp.  An id outside the enumeration
\* matches no case.
ApplyCatalog(s, exp) ==
  CASE exp = IDLE ->
         [s EXCEPT
            !.leftTarget = setEyeState(CENTER_X_LEFT, CENTER_Y, REF_EYE_W, REF_EYE_H, 0, 0, FLit(0, 10), FLit(5, 10)),
            !.rightTarget = setEyeState(CENTER_X_RIGHT, CENTER_Y, REF_EYE_W, REF_EYE_H, 0, 0, FLit(0, 10), FLit(5, 10))]
    [] exp = HAPPY ->
         [s EXCEPT
            !.leftTarget = setEyeState(CENTER_X_LEFT, CENTER_Y - 4, Scale(REF_EYE_W, 90), Scale(REF_EYE_H, 75), 0, -3, FLit(12, 100), FLit(8, 10)),
            !.rightTarget = setEyeState(CENTER_X_RIGHT, CENTER_Y - 4, Scale(REF_EYE_W, 90), Scale(REF_EYE_H, 75), 0, -3, FLit(12, 100), FLit(8, 10))]
    [] exp = SAD ->
         [s EXCEPT
            !.leftTarget = setEyeState(CENTER_X_LEFT, CENTER_Y + 4, Scale(REF_EYE_W, 92), Scale(REF_EYE_H, 70), 0, 3, FLit(2, 10), FLit(6, 10)),
            !.rightTarget = setEyeState(CENTER_X_RIGHT, CENTER_Y + 4, Scale(REF_EYE_W, 92), Scale(REF_EYE_H, 70), 0, 3, FLit(2, 10), FLit(6, 10))]
    [] exp = ANGRY ->
         [s EXCEPT
            !.leftTarget = setEyeState(CENTER_X_LEFT, CENTER_Y, Scale(REF_EYE_W, 85), Scale(REF_EYE_H, 65), 4, 0, FLit(25, 100), FLit(10, 10)),
            !.rightTarget = setEyeState(CENTER_X_RIGHT, CENTER_Y, Scale(REF_EYE_W, 85), Scale(REF_EYE_H, 65), -4, 0, FLit(25, 100), FLit(10, 10))]
    [] exp = SURPRISED ->
         [s EXCEPT
            !.leftTarget = setEyeState(CENTER_X_LEFT, CENTER_Y, Scale(REF_EYE_W, 130), Scale(REF_EYE_H, 130), 0, 0, FLit(0, 10), FLit(2, 10)),
            !.rightTarget = setEyeState(CENTER_X_RIGHT, CENTER_Y, Scale(REF_EYE_W, 130), Scale(REF_EYE_H, 130), 0, 0, FLit(0, 10), FLit(2, 10))]
    [] exp = BLINK ->
         [s EXCEPT
            !.leftTarget.lid = FLit(10, 10),
            !.rightTarget.lid = FLit(10, 10),
            !.transitionDuration = 75]
    [] exp = LOOK_LEFT ->
         [s EXCEPT
            !.leftTarget = setEyeState(CENTER_X_LEFT - 8, CENTER_Y, Scale(REF_EYE_W, 110), Scale(REF_EYE_H, 110), -6, 0, FLit(0, 10), FLit(7, 10)),
            !.rightTarget = setEyeState(CENTER_X_RIGHT - 8, CENTER_Y, Scale(REF_EYE_W, 90), Scale(REF_EYE_H, 90), -3, 0, FLit(0, 10), FLit(6, 10))]
    [] exp = LOOK_RIGHT ->
         [s EXCEPT
            !.leftTarget = setEyeState(CENTER_X_LEFT + 8, CENTER_Y, Scale(REF_EYE_W, 90), Scale(REF_EYE_H, 90), 3, 0, FLit(0, 10), FLit(6, 10)),
            !.rightTarget = setEyeState(CENTER_X_RIGHT + 8, CENTER_Y, Scale(REF_EYE_W, 110), Scale(REF_EYE_H, 110), 6, 0, FLit(0, 10), FLit(7, 10))]
    [] exp = CONFUSED ->
         [s EXCEPT
            !.leftTarget = setEyeState(CENTER_X_LEFT - 4, CENTER_Y, Scale(REF_EYE_W, 95), Scale(REF_EYE_H, 95), 4, -2, FLit(8, 100), FLit(7, 10)),
            !.rightTarget = setEyeState(CENTER_X_RIGHT + 4, CENTER_Y, Scale(REF_EYE_W, 95), Scale(REF_EYE_H, 95), -4, 2, FLit(18, 100), FLit(7, 10))]
    [] exp = BORED ->
         [s EXCEPT
            !.leftTarget = setEyeState(CENTER_X_LEFT, CENTER_Y + 2, Scale(REF_EYE_W, 90), Scale(REF_EYE_H, 60), 3, 3, FLit(45, 100), FLit(4, 10)),
            !.rightTarget = setEyeState(CENTER_X_RIGHT, CENTER_Y + 2, Scale(REF_EYE_W, 90), Scale(REF_EYE_H, 60), 3, 3, FLit(45, 100), FLit(4, 10))]
    [] exp = SCARED ->
         [s EXCEPT
            !.leftTarget = setEyeState(CENTER_X_LEFT, CENTER_Y, Scale(REF_EYE_W, 150), Scale(REF_EYE_H, 150), 0, 0, FLit(0, 10), FLit(1, 10)),
            !.rightTarget = setEyeState(CENTER_X_RIGHT, CENTER_Y, Scale(REF_EYE_W, 150), Scale(REF_EYE_H, 150), 0, 0, FLit(0, 10), FLit(1, 10))]
    [] exp = SLEEPY ->
         [s EXCEPT
            !.leftTarget = setEyeState(CENTER_X_LEFT, CENTER_Y + 2, Scale(REF_EYE_W, 90), Scale(REF_EYE_H, 60), 0, 1, FLit(6, 10), FLit(3, 10)),
            !.rightTarget = setEyeState(CENTER_X_RIGHT, CENTER_Y + 2, Scale(REF_EYE_W, 90), Scale(REF_EYE_H, 60), 0, 1, FLit(6, 10), FLit(3, 10))]
    [] exp = ASLEEP ->
         [s EXCEPT
            !.leftTarget = setEyeState(CENTER_X_LEFT, CENTER_Y + 4, Scale(REF_EYE_W, 80), Scale(REF_EYE_H, 40), 0, 0, FLit(10, 10), FLit(1, 10)),
            !.rightTarget = setEyeState(CENTER_X_RIGHT, CENTER_Y + 4, Scale(REF_EYE_W, 80), Scale(REF_EYE_H, 40), 0, 0, FLit(10, 10), FLit(1, 10))]
    [] exp = WAKEUP ->
         [s EXCEPT
            !.leftTarget = setEyeState(CENTER_X_LEFT, CENTER_Y, REF_EYE_W, REF_EYE_H, 0, 0, FLit(0, 10), FLit(6, 10)),
            !.rightTarget = setEyeState(CENTER_X_RIGHT, CENTER_Y, REF_EYE_W, REF_EYE_H, 0, 0, FLit(0, 10), FLit(6, 10)),
            !.transitionDuration = 500]
    [] OTHER -> s

\* A faulty setExpression for comparison: the duration argument is not
\* stored, only the catalog sets durations.
setExpressionKeepDuration(s, exp, duration, now) ==
  IF ~Accepts(s, exp) THEN s
  ELSE ApplyCatalog(
         [s EXCEPT
            !.leftStart = s.leftEye,
            !.rightStart = s.rightEye,
            !.transitionStartTime = now,
            !.inTransition = TRUE,
            !.previousExpression = IF exp # BLINK THEN exp ELSE @,
            !.currentExpression = exp],
         exp)

\* A faulty setExpression for comparison: BLINK is recorded as the previous
\* expression like any other.
setExpressionAnchorsBlink(s, exp, duration, now) ==
  IF ~Accepts(s, exp) THEN s
  ELSE ApplyCatalog(
         [s EXCEPT
            !.leftStart = s.leftEye,
            !.rightStart = s.rightEye,
            !.transitionStartTime = now,
            !.transitionDuration = duration,
            !.inTransition = TRUE,
            !.previousExpression = exp,
            !.currentExpression = exp],
         exp)

\* A faulty setExpression for comparison: the targets are reset to the
\* rendered eyes before the catalog is applied, so that a BLINK closes the
\* eyes around the rendered state.
setExpressionResetsTarget(s, exp, duration, now) ==
  IF ~Accepts(s, exp) THEN s
  ELSE ApplyCatalog(
         [s EXCEPT
            !.leftStart = s.leftEye,
            !.rightStart = s.rightEye,
            !.leftTarget = s.leftEye,
            !.rightTarget = s.rightEye,
            !.transitionStartTime = now,
            !.transitionDuration = duration,
            !.inTransition = TRUE,
            !.previousExpression = IF exp # BLINK THEN exp ELSE @,
            !.currentExpression = exp],
         exp)

\* setExpression(exp, duration) called when millis() = now.  Line 153
\* converts the int duration to unsigned long: a negative duration becomes
\* 2^build.long + duration, kept as the same negative integer.
setExpression(s, exp, duration, now) ==
  IF ~Accepts(s, exp) THEN s
  ELSE ApplyCatalog(
         [s EXCEPT
            !.leftStart = s.leftEye,
            !.rightStart = s.rightEye,
            !.transitionStartTime = now,
            !.transitionDuration = duration,
            !.inTransition = TRUE,
            !.previousExpression = IF exp # BLINK THEN exp ELSE @,
            !.currentExpression = exp],
         exp)

(***************************************************************************)
(* updateEyes                                                              *)
(***************************************************************************)
\* Lines 272-292: every field of both rendered eyes is interpolated between
\* its start and its target at t = elapsed / transitionDuration.
LerpEye(from, to, t, fused) ==
  [x         |-> lerp_i(from.x, to.x, t, fused),
   y         |-> lerp_i(from.y, to.y, t, fused),
   w         |-> lerp_i(from.w, to.w, t, fused),
   h         |-> lerp_i(from.h, to.h, t, fused),
   pupil_dx  |-> lerp_i(from.pupil_dx, to.pupil_dx, t, fused),
   pupil_dy  |-> lerp_i(from.pupil_dy, to.pupil_dy, t, fused),
   lid       |-> lerp(from.lid, to.lid, t, fused),
   intensity |-> lerp(from.intensity, to.intensity, t, fused)]

\* Lines 276-292: both eyes at the factor t.
InterpolateAt(s, t) ==
  [s EXCEPT !.leftEye = LerpEye(s.leftStart, s.leftTarget, t, s.build.fma),
            !.rightEye = LerpEye(s.rightStart, s.rightTarget, t, s.build.fma)]

\* Lines 274-292: t is (float)elapsed / (float)transitionDuration.
Interpolate(s, elapsed) ==
  InterpolateAt(s, FDiv(FromInt(elapsed), ULongToFloat(s.transitionDuration, s.build.long)))

\* Lines 256-258: the transition is over, the rendered eyes snap to the
\* targets.
Snap(s) ==
  [s EXCEPT !.inTransition = FALSE, !.leftEye = s.leftTarget, !.rightEye = s.rightTarget]

\* Faulty chain tables for comparison: a blink that always returns to IDLE,
\* and a table without the SLEEPY row.
ChainRuleToIdle(cur, prev) ==
  IF cur = BLINK THEN <<[exp |-> IDLE, duration |-> 75]>>
  ELSE IF cur = WAKEUP THEN <<[exp |-> IDLE, duration |-> 200]>>
  ELSE IF cur = SLEEPY THEN <<[exp |-> ASLEEP, duration |-> 500]>>
  ELSE <<>>

ChainRuleNoSleep(cur, prev) ==
  IF cur = BLINK THEN <<[exp |-> prev, duration |-> 75]>>
  ELSE IF cur = WAKEUP THEN <<[exp |-> IDLE, duration |-> 200]>>
  ELSE <<>>

\* A faulty chain table for comparison: a completed BLINK blinks again.
ChainRuleBlinkAgain(cur, prev) ==
  IF cur = BLINK THEN <<[exp |-> BLINK, duration |-> 75]>>
  ELSE IF cur = WAKEUP THEN <<[exp |-> IDLE, duration |-> 200]>>
  ELSE IF cur = SLEEPY THEN <<[exp |-> ASLEEP, duration |-> 500]>>
  ELSE <<>>

\* Lines 261-270: the request, if any, that follows the completion of cur.
ChainRule(cur, prev) ==
  IF cur = BLINK THEN <<[exp |-> prev, duration |-> 75]>>
  ELSE IF cur = WAKEUP THEN <<[exp |-> IDLE, duration |-> 200]>>
  ELSE IF cur = SLEEPY THEN <<[exp |-> ASLEEP, duration |-> 500]>>
  ELSE <<>>

\* A faulty completion test for comparison: the tick at exactly start +
\* duration still interpolates.
TransitionOverStrict(s, now) ==
  /\ s.transitionDuration >= 0
  /\ now - s.transitionStartTime > s.transitionDuration

\* Line 255: elapsed >= transitionDuration, both unsigned long.
TransitionOver(s, now) == ULongValueGeq(now - s.transitionStartTime, s.transitionDuration)

\* Lines 251-294; now is the value line 248 read, nowSet the value millis()
\* returns to the setExpression of a chained request (line 152).
TransitionStep(s, now, nowSet) ==
  IF ~s.inTransition THEN s
  ELSE IF TransitionOver(s, now)
       THEN LET s1 == Snap(s)
                c  == ChainRule(s1.currentExpression, s1.previousExpression)
            IN IF c = <<>> THEN s1
               ELSE setExpression(s1, c[1].exp, c[1].duration, nowSet)
       ELSE Interpolate(s, now - s.transitionStartTime)

\* Line 297: the auto-blink timer has run out and the engine is steady.
BlinkTimerExpired(s, now) ==
  s.autoBlink /\ ~s.inTransition /\ now > s.lastBlinkTime + s.nextBlinkDelay

\* A faulty filter for comparison: the auto-blink spares only BLINK.
BlinkAllowedAsleep(s) == s.currentExpression # BLINK

\* Line 298: the expressions the auto-blink leaves alone.
BlinkAllowed(s) == s.currentExpression # ASLEEP /\ s.currentExpression # BLINK

\* A faulty auto-blink for comparison: lastBlinkTime is not updated.
AutoBlinkStepKeepsTime(s, now, nowSet, r) ==
  IF ~BlinkTimerExpired(s, now) THEN s
  ELSE LET s1 == IF BlinkAllowed(s) THEN setExpression(s, BLINK, 75, nowSet) ELSE s
       IN [s1 EXCEPT !.nextBlinkDelay = r]

\* Lines 296-303; now is the value line 248 read, which the timer is tested
\* against and lastBlinkTime is set to, nowSet the value millis() returns to
\* setExpression(BLINK, 75) (line 152), r the value random(3000, 7000)
\* returns.
AutoBlinkStep(s, now, nowSet, r) ==
  IF ~BlinkTimerExpired(s, now) THEN s
  ELSE LET s1 == IF BlinkAllowed(s) THEN setExpression(s, BLINK, 75, nowSet) ELSE s
       IN [s1 EXCEPT !.lastBlinkTime = now, !.nextBlinkDelay = r]

\* updateEyes: line 248 reads now, and the setExpression it calls reads
\* nowSet.  It calls setExpression once at most, since a chained request
\* leaves inTransition true, with which the auto-blink does not fire.
\* drawEyes only writes the display buffer.
updateEyes(s, now, nowSet, r) ==
  AutoBlinkStep(TransitionStep(s, now, nowSet), now, nowSet, r)

(***************************************************************************)
(* handleSerial and handleDemo                                             *)
(***************************************************************************)
\* Line 316.
ValidCommand(anim) == anim >= 0 /\ anim < 14

\* Faulty flags for comparison: a command that leaves the demo running.
CommandFlagsKeepDemo(s) == [s EXCEPT !.autoBlink = TRUE]

\* Lines 317-318.
CommandFlags(s) == [s EXCEPT !.demo_mode = FALSE, !.autoBlink = TRUE]

\* handleSerial when Serial.parseInt() returns the long anim: line 314
\* stores it in an int, and that int is tested and passed on.
handleSerial(s, anim, now) ==
  IF ValidCommand(ToInt(anim, s.build.int))
  THEN setExpression(CommandFlags(s), ToInt(anim, s.build.int), 200, now)
  ELSE s

\* A faulty trigger for comparison: the demo does not wait for the
\* transition in flight.
DemoDueMidTransition(s, now) == s.demo_mode /\ now > s.nextDemoTime

\* Line 329.
DemoDue(s, now) == s.demo_mode /\ ~s.inTransition /\ now > s.nextDemoTime

\* A faulty demo for comparison: it cycles through all 14 expressions.
handleDemoAll(s, now, nowSet, nowNext) ==
  IF ~DemoDue(s, now) THEN s
  ELSE LET idx == (s.demo_index + 1) % 14
           s1  == setExpression([s EXCEPT !.demo_index = idx], idx, 400, nowSet)
       IN [s1 EXCEPT !.nextDemoTime = nowNext + 2000]

\* Lines 331-332: the request the demo makes when it fires.
DemoRequest(s) == [exp |-> (s.demo_index + 1) % 12, duration |-> 400]

\* handleDemo: millis() returns now to the test of line 329, nowSet to
\* setExpression (line 152) and nowNext to line 333.
handleDemo(s, now, nowSet, nowNext) ==
  IF ~DemoDue(s, now) THEN s
  ELSE LET rq == DemoRequest(s)
           s1 == setExpression([s EXCEPT !.demo_index = rq.exp], rq.exp, rq.duration, nowSet)
       IN [s1 EXCEPT !.nextDemoTime = nowNext + 2000]

\* The globals as initialised on the board b, with autoBlink as configured,
\* then setup(): millis() returns now to setExpression (line 152) and
\* nowNext to line 350.
setup(b, cfgAutoBlink, now, nowNext) ==
  LET boot == [build |-> b,
               leftEye |-> ClosedLeft, rightEye |-> ClosedRight,
               leftTarget |-> ClosedLeft, rightTarget |-> ClosedRight,
               leftStart |-> ZeroEye, rightStart |-> ZeroEye,
               currentExpression |-> WAKEUP, previousExpression |-> IDLE,
               transitionStartTime |-> 0, transitionDuration |-> 200,
               inTransition |-> FALSE, autoBlink |-> cfgAutoBlink,
               lastBlinkTime |-> 0, nextBlinkDelay |-> 3000,
               demo_mode |-> TRUE, nextDemoTime |-> 0, demo_index |-> 0]
  IN [setExpression(boot, WAKEUP, 500, now) EXCEPT !.nextDemoTime = nowNext + 3000]

(***************************************************************************)
(* The sketch as a state machine.  One pass of loop() is two steps:        *)
(* handleSerial, then handleDemo, updateEyes and display.display().  The   *)
(* clock advances while the frame is sent to the display, and it may tick  *)
(* between two of the calls of millis() that handleDemo and updateEyes     *)
(* make.                                                                   *)
(***************************************************************************)
VARIABLES
  leftEye, rightEye, leftTarget, rightTarget, leftStart, rightStart,
  currentExpression, previousExpression,
  transitionStartTime, transitionDuration, inTransition,
  autoBlink, lastBlinkTime, nextBlinkDelay,
  demo_mode, nextDemoTime, demo_index,
  millis,        \* the value millis() returns when a pass of loop() starts
  ticks,         \* passes of loop() so far during which the clock ticked
  pc,            \* the call of loop() that runs next
  cmds,          \* requests received from outside so far
  autoBlinkCfg,  \* autoBlink as configured at startup
  build,         \* the board: the widths of int and unsigned long, fused or not
  commanded,     \* a valid serial command has been received
  req,           \* the most recent accepted request
  obs,           \* what the last step did
  last           \* the latest firings of the autonomous triggers

engineVars ==
  <<leftEye, rightEye, leftTarget, rightTarget, leftStart, rightStart,
    currentExpression, previousExpression,
    transitionStartTime, transitionDuration, inTransition,
    autoBlink, lastBlinkTime, nextBlinkDelay,
    demo_mode, nextDemoTime, demo_index>>

vars == <<engineVars, millis, ticks, pc, cmds, autoBlinkCfg, build, commanded, req, obs, last>>

\* Bounds of the exploration: the number of requests from outside, the last
\* clock value, the time a pass of loop() takes (a frame of 100 ms, or a
\* long stall), the values random(3000, 7000) returns (its extremes), the
\* integers read from the serial line (every id, one on each side of the
\* range, and two that differ from the ids 3 and 5 by a multiple of 2^16),
\* the durations user code passes to setExpression (also a negative one),
\* the boards, by how much the clock ticks between two calls of millis()
\* within a pass of loop(), and in how many passes of a run it does.
MaxCmds == 1
MaxTicks == 1
Tick == 1
MaxTime == 4000
Steps == {100, 3000}
BlinkDelays == {3000, 6999}
Commands == (-1..14) \cup {65539, -65531}
ApiDurations == {0, 100}
NegativeDurations == {-1}

\* The boards of the exploration: one with a 16-bit int and no fused
\* multiply-add, one with a 32-bit int and the multiply-add fused.  A run on
\* Esp32 (32-bit int, nothing fused) reads the serial line as the run on
\* Esp32Fma does and renders as the run on Avr does.
Builds == {Avr, Esp32Fma}

\* The run without stalls: the time of a pass of loop(), and the commands
\* sent (a plain expression, the three that chain, and ASLEEP).
LiveSteps == {100}
LiveCommands == {HAPPY, BLINK, SLEEPY, ASLEEP, WAKEUP}

\* The run with the demo left on: its last clock value (the demo has gone
\* once around its 12 expressions by then), the time a pass of loop()
\* takes (half a second) and the number of passes during which the clock
\* ticks.
MaxDemoTime == 31500
MaxDemoTicks == 2
DemoSteps == {500}

Engine ==
  [build |-> build,
   leftEye |-> leftEye, rightEye |-> rightEye,
   leftTarget |-> leftTarget, rightTarget |-> rightTarget,
   leftStart |-> leftStart, rightStart |-> rightStart,
   currentExpression |-> currentExpression, previousExpression |-> previousExpression,
   transitionStartTime |-> transitionStartTime, transitionDuration |-> transitionDuration,
   inTransition |-> inTransition, autoBlink |-> autoBlink,
   lastBlinkTime |-> lastBlinkTime, nextBlinkDelay |-> nextBlinkDelay,
   demo_mode |-> demo_mode, nextDemoTime |-> nextDemoTime, demo_index |-> demo_index]

Commit(s) ==
  /\ leftEye' = s.leftEye
  /\ rightEye' = s.rightEye
  /\ leftTarget' = s.leftTarget
  /\ rightTarget' = s.rightTarget
  /\ leftStart' = s.leftStart
  /\ rightStart' = s.rightStart
  /\ currentExpression' = s.currentExpression
  /\ previousExpression' = s.previousExpression
  /\ transitionStartTime' = s.transitionStartTime
  /\ transitionDuration' = s.transitionDuration
  /\ inTransition' = s.inTransition
  /\ autoBlink' = s.autoBlink
  /\ lastBlinkTime' = s.lastBlinkTime
  /\ nextBlinkDelay' = s.nextBlinkDelay
  /\ demo_mode' = s.demo_mode
  /\ nextDemoTime' = s.nextDemoTime
  /\ demo_index' = s.demo_index

\* The record of a request accepted at time now: before and after are the
\* engine around the setExpression call; mid tells whether it interrupted a
\* transition, prevBy and prevMid describe the request it follows.
Request(by, exp, duration, before, after, now) ==
  [by |-> by, exp |-> exp, duration |-> duration, at |-> now,
   from |-> before.currentExpression, mid |-> before.inTransition,
   prevBy |-> req.by, prevMid |-> req.mid,
   startL |-> before.leftEye, startR |-> before.rightEye,
   targetL |-> after.leftTarget, targetR |-> after.rightTarget]

Observe(step) ==
  [step |-> step, at |-> millis, input |-> FALSE, cmd |-> 0, accepted |-> FALSE, fired |-> FALSE,
   completed |-> FALSE, done |-> -1, chained |-> 0, steady |-> FALSE,
   expired |-> FALSE, blinked |-> FALSE, gap |-> -1, firedAt |-> -1]

\* setup() has run at millis() = 0 on one of the boards, with autoBlink
\* configured as cfg.
InitWith(boards, cfg) ==
  /\ autoBlinkCfg = cfg
  /\ build \in boards
  /\ millis = 0
  /\ ticks = 0
  /\ LET s == setup(build, autoBlinkCfg, 0, 0)
     IN /\ leftEye = s.leftEye
        /\ rightEye = s.rightEye
        /\ leftTarget = s.leftTarget
        /\ rightTarget = s.rightTarget
        /\ leftStart = s.leftStart
        /\ rightStart = s.rightStart
        /\ currentExpression = s.currentExpression
        /\ previousExpression = s.previousExpression
        /\ transitionStartTime = s.transitionStartTime
        /\ transitionDuration = s.transitionDuration
        /\ inTransition = s.inTransition
        /\ autoBlink = s.autoBlink
        /\ lastBlinkTime = s.lastBlinkTime
        /\ nextBlinkDelay = s.nextBlinkDelay
        /\ demo_mode = s.demo_mode
        /\ nextDemoTime = s.nextDemoTime
        /\ demo_index = s.demo_index
        /\ req = [by |-> "setup", exp |-> WAKEUP, duration |-> 500, at |-> 0,
                  from |-> WAKEUP, mid |-> FALSE,
                  prevBy |-> "none", prevMid |-> FALSE,
                  startL |-> ClosedLeft, startR |-> ClosedRight,
                  targetL |-> s.leftTarget, targetR |-> s.rightTarget]
  /\ pc = "serial"
  /\ cmds = 0
  /\ commanded = FALSE
  /\ obs = Observe("setup")
  /\ last = [demoAt |-> -1, demoIndex |-> -1, blinkAt |-> -1]

\* The sketch as shipped: autoBlink = true (line 79).
Init == InitWith(Builds, TRUE)

\* The sketch as shipped on an Arduino Uno (line 3), for the runs in which
\* nothing is read from the serial line: the width of int plays no part in
\* them and unsigned long has 32 bits on every board of Builds.
InitUno == InitWith({Avr}, TRUE)

\* autoBlink set either way at the top of the sketch.
InitCfg == \E cfg \in BOOLEAN : InitWith(Builds, cfg)

\* handleSerial with nothing to read (line 312).
SerialIdle ==
  /\ pc = "serial"
  /\ pc' = "frame"
  /\ obs' = Observe("serial")
  /\ UNCHANGED <<engineVars, millis, ticks, cmds, autoBlinkCfg, build, commanded, req, last>>

\* The step of a request from outside: cmd is the number received, exp the
\* expression asked of setExpression, s0 and s1 are the engine before and
\* after the call, ok tells whether setExpression accepted the request.
Requested(by, cmd, exp, duration, s0, s1, ok) ==
  /\ Commit(s1)
  /\ req' = IF ok THEN Request(by, exp, duration, s0, s1, millis) ELSE req
  /\ obs' = [Observe(by) EXCEPT !.input = TRUE, !.cmd = cmd, !.accepted = ok]
  /\ cmds' = cmds + 1
  /\ UNCHANGED <<millis, ticks, autoBlinkCfg, build, last>>

\* handleSerial reading the integer anim.
SerialCommand(anim) ==
  /\ pc = "serial"
  /\ cmds < MaxCmds
  /\ Requested("serial", anim, ToInt(anim, build.int), 200,
               Engine, handleSerial(Engine, anim, millis),
               ValidCommand(ToInt(anim, build.int)) /\ Accepts(Engine, ToInt(anim, build.int)))
  /\ commanded' = (commanded \/ ValidCommand(ToInt(anim, build.int)))
  /\ pc' = "frame"

\* The values millis() returns to the calls a pass of loop() makes after
\* handleSerial, when the pass starts at m and the clock ticks before the
\* k-th of them: line 329 (demo), lines 152 and 333 within handleDemo
\* (demoSet, demoNext), line 248 (now) and line 152 within updateEyes
\* (set).  With k = 0 the clock stays at m throughout; it ticks once at
\* most between the calls of one pass.
TickPoints == 0..5

PassClock(m, k) ==
  [demo     |-> IF k = 1 THEN m + Tick ELSE m,
   demoSet  |-> IF k \in 1..2 THEN m + Tick ELSE m,
   demoNext |-> IF k \in 1..3 THEN m + Tick ELSE m,
   now      |-> IF k \in 1..4 THEN m + Tick ELSE m,
   set      |-> IF k \in 1..5 THEN m + Tick ELSE m]

\* What one pass of handleDemo and updateEyes did: s0 is the engine before
\* handleDemo, s1 after it, s2 after the transition step of updateEyes, s3
\* after its auto-blink step, c the values millis() returned.
FrameEffect(s0, s1, s2, s3, c) ==
  /\ Commit(s3)
  /\ req' = IF BlinkTimerExpired(s2, c.now) /\ BlinkAllowed(s2)
            THEN Request("autoblink", BLINK, 75, s2, s3, s3.transitionStartTime)
            ELSE IF s1.inTransition /\ TransitionOver(s1, c.now)
                    /\ ChainRule(s1.currentExpression, s1.previousExpression) # <<>>
            THEN Request("chain", s2.currentExpression,
                         ChainRule(s1.currentExpression, s1.previousExpression)[1].duration,
                         Snap(s1), s2, s2.transitionStartTime)
            ELSE IF DemoDue(s0, c.demo)
            THEN Request("demo", DemoRequest(s0).exp, DemoRequest(s0).duration,
                         s0, s1, s1.transitionStartTime)
            ELSE req
  /\ obs' = [Observe("frame") EXCEPT
               !.at = c.now,
               !.fired = DemoDue(s0, c.demo),
               !.firedAt = IF DemoDue(s0, c.demo) THEN c.demo ELSE -1,
               !.completed = s1.inTransition /\ TransitionOver(s1, c.now),
               !.done = IF s1.inTransition /\ TransitionOver(s1, c.now)
                        THEN s1.currentExpression ELSE -1,
               !.chained = IF s1.inTransition /\ TransitionOver(s1, c.now)
                           THEN Len(ChainRule(s1.currentExpression, s1.previousExpression))
                           ELSE 0,
               !.steady = s1.inTransition /\ TransitionOver(s1, c.now) /\ ~s2.inTransition,
               !.expired = BlinkTimerExpired(s2, c.now),
               !.blinked = BlinkTimerExpired(s2, c.now) /\ BlinkAllowed(s2),
               !.gap = IF BlinkTimerExpired(s2, c.now) /\ BlinkAllowed(s2) /\ last.blinkAt >= 0
                       THEN s3.transitionStartTime - last.blinkAt ELSE -1]
  /\ last' = [demoAt |-> IF DemoDue(s0, c.demo) THEN s1.transitionStartTime ELSE last.demoAt,
              demoIndex |-> IF DemoDue(s0, c.demo) THEN s1.demo_index ELSE last.demoIndex,
              blinkAt |-> IF BlinkTimerExpired(s2, c.now) /\ BlinkAllowed(s2)
                          THEN s3.transitionStartTime ELSE last.blinkAt]

FrameBlink(s0, s1, s2, c, r) ==
  FrameEffect(s0, s1, s2, AutoBlinkStep(s2, c.now, c.set, r), c)

\* The end of a pass of loop(): the auto-blink step of updateEyes, where r
\* is what random(3000, 7000) returns if the blink timer asks for it, then
\* display.display() sends the frame: the pass has taken dt milliseconds
\* (one of steps) and ends no later than the clock value until.
FrameEnd(s0, s1, s2, c, steps, until) ==
  \E r \in BlinkDelays, dt \in steps :
    /\ millis + dt <= until
    /\ FrameBlink(s0, s1, s2, c, r)
    /\ millis' = millis + dt
    /\ pc' = "serial"
    /\ UNCHANGED <<cmds, autoBlinkCfg, build, commanded>>

FrameUpdate(s0, s1, c, steps, until) ==
  FrameEnd(s0, s1, TransitionStep(s1, c.now, c.set), c, steps, until)

\* handleDemo, updateEyes and display.display() with the clock values c.
FrameAt(c, steps, until) ==
  FrameUpdate(Engine, handleDemo(Engine, c.demo, c.demoSet, c.demoNext), c, steps, until)

\* The rest of loop(): handleDemo, updateEyes, then display.display().  The
\* clock ticks before one of the calls of millis(), or not at all; it ticks
\* in budget passes of a run at most.
FrameOf(steps, until, budget) ==
  /\ pc = "frame"
  /\ \E k \in TickPoints :
       /\ k = 0 \/ ticks < budget
       /\ ticks' = IF k = 0 THEN ticks ELSE ticks + 1
       /\ FrameAt(PassClock(millis, k), steps, until)

Frame == FrameOf(Steps, MaxTime, MaxTicks)

\* A direct call setExpression(exp, duration) from code added to loop(), as
\* the comment above loop() describes.
ApiCall(exp, duration) ==
  /\ pc = "serial"
  /\ cmds < MaxCmds
  /\ Requested("api", exp, exp, duration, Engine, setExpression(Engine, exp, duration, millis),
               Accepts(Engine, exp))
  /\ UNCHANGED <<pc, commanded>>

Next ==
  \/ SerialIdle
  \/ \E anim \in Commands : SerialCommand(anim)
  \/ Frame

Spec == Init /\ [][Next]_vars

\* The calls user code makes: every expression with every duration of
\* ApiDurations, and with a negative duration one expression whose duration
\* the caller sets (HAPPY) and one whose duration the catalog sets (BLINK).
ApiRequests ==
  (Expressions \X ApiDurations) \cup ({HAPPY, BLINK} \X NegativeDurations)

NextApi ==
  \/ SerialIdle
  \/ Frame
  \/ \E rq \in ApiRequests : ApiCall(rq[1], rq[2])

SpecApi == InitUno /\ [][NextApi]_vars

SpecCfg == InitCfg /\ [][Next]_vars

\* loop() running for MaxDemoTime milliseconds with nothing sent over the
\* serial line, so that the demo stays on.
LongFrame == FrameOf(DemoSteps, MaxDemoTime, MaxDemoTicks)

NextDemo ==
  \/ SerialIdle
  \/ LongFrame

SpecDemo == InitUno /\ [][NextDemo]_vars

\* loop() running without stalls: every pass takes the same time, and
\* loop() never stops running before the last clock value.
LiveFrame == FrameOf(LiveSteps, MaxTime, MaxTicks)

NextLive ==
  \/ SerialIdle
  \/ \E anim \in LiveCommands : SerialCommand(anim)
  \/ LiveFrame

\* loop() keeps running: the call of handleSerial returns (SerialPass), and
\* so does the rest of the pass while the clock is short of its last value
\* (FramePass).  Under NextLive these are the steps of SerialIdle or
\* SerialCommand, and of LiveFrame.
SerialPass == pc = "serial" /\ pc' = "frame"

FramePass ==
  /\ pc = "frame"
  /\ \E dt \in LiveSteps : millis + dt <= MaxTime /\ millis' = millis + dt
  /\ pc' = "serial"

SpecLive ==
  Init /\ [][NextLive]_vars /\ WF_pc(SerialPass) /\ WF_<<pc, millis>>(FramePass)

(***************************************************************************)
(* Properties                                                              *)
(***************************************************************************)
\* The step is the first frame whose tick (the now of line 248) comes 75 ms
\* or more after the start of the blink requested last: no request was
\* accepted since (req is that blink) and the blink is still in transition.
BlinkElapsed ==
  /\ pc = "frame"
  /\ req.exp = BLINK
  /\ currentExpression = BLINK
  /\ inTransition
  /\ obs'.at - req.at >= 75

\* The transition in force after the step started during the step's tick:
\* at the now of line 248 or, the clock having ticked before line 152, one
\* tick after it.
StartedAtTick ==
  /\ transitionStartTime' >= obs'.at
  /\ transitionStartTime' <= obs'.at + Tick

\* The frame that ends a blink starts a transition to x with duration d and
\* the catalog's targets of x.
ReturnsTo(x, d) ==
  /\ inTransition'
  /\ currentExpression' = x
  /\ StartedAtTick
  /\ transitionDuration' = d
  /\ leftTarget' = ApplyCatalog(Engine, x).leftTarget
  /\ rightTarget' = ApplyCatalog(Engine, x).rightTarget

\* C1 (as the code has it): a BLINK accepted while X is the current
\* expression, steady or in transition, with no request accepted since, is
\* followed at the first frame 75 ms or more later by a new transition to X
\* and X's targets; its duration is 75 ms, except that WAKEUP always takes
\* the 500 ms of the catalog.
BlinkAndReturn ==
  [][BlinkElapsed => (req.from # BLINK /\ ReturnsTo(req.from, IF req.from = WAKEUP THEN 500 ELSE 75))]_vars

\* C1 as stated: the return to X always uses the 75 ms duration.
BlinkAndReturnIn75 ==
  [][BlinkElapsed => (req.from # BLINK /\ ReturnsTo(req.from, 75))]_vars

\* C1: a serial BLINK interrupted the demo's transition to HAPPY, ran its
\* 75 ms, and the engine is on its way back to HAPPY.
BlinkReturnedToHappy ==
  /\ obs.step = "frame"
  /\ obs.done = BLINK
  /\ req.by = "chain"
  /\ req.prevBy = "serial"
  /\ req.prevMid
  /\ currentExpression = HAPPY
  /\ inTransition
  /\ transitionDuration = 75

\* The step is a frame whose tick completes the transition in progress.
\* (handleDemo does nothing while a transition is in progress.)
Completing ==
  /\ pc = "frame"
  /\ inTransition
  /\ ULongValueGeq(obs'.at - transitionStartTime, transitionDuration)

\* C2: the frame that completes WAKEUP leaves IDLE in a new 200 ms
\* transition; the frame that completes SLEEPY leaves ASLEEP in a new 500 ms
\* transition; the completion of any expression but BLINK, WAKEUP and SLEEPY
\* chains nothing and leaves the engine steady in that expression (the only
\* thing the rest of the frame can then do is start an auto-blink from it);
\* no completion chains more than one request.
ChainTable ==
  [][Completing =>
       /\ obs'.completed /\ obs'.done = currentExpression
       /\ obs'.chained <= 1
       /\ currentExpression = WAKEUP =>
            /\ obs'.chained = 1
            /\ currentExpression' = IDLE /\ inTransition'
            /\ transitionDuration' = 200 /\ StartedAtTick
       /\ currentExpression = SLEEPY =>
            /\ obs'.chained = 1
            /\ currentExpression' = ASLEEP /\ inTransition'
            /\ transitionDuration' = 500 /\ StartedAtTick
       /\ currentExpression \notin {BLINK, WAKEUP, SLEEPY} =>
            /\ obs'.chained = 0
            /\ obs'.steady
            /\ \/ ~inTransition' /\ currentExpression' = currentExpression
               \/ /\ obs'.blinked /\ req'.by = "autoblink"
                  /\ req'.from = currentExpression /\ ~req'.mid
                  /\ currentExpression' = BLINK]_vars

\* C2: a SLEEPY transition requested through setExpression has just
\* completed and chained ASLEEP at 500 ms.
SleepyChainedAsleep ==
  /\ obs.step = "frame"
  /\ obs.done = SLEEPY
  /\ obs.chained = 1
  /\ req.by = "chain"
  /\ req.prevBy = "api"
  /\ currentExpression = ASLEEP
  /\ inTransition
  /\ transitionDuration = 500

\* C3: setExpression(X, d) called while the engine is in transition into X
\* changes nothing: snapshots, timer, duration, targets, rendered eyes,
\* current and previous expression and every other global are as before.
RedundantRequestIsNoOp ==
  [][(obs'.step = "api" /\ obs'.input /\ inTransition /\ obs'.cmd = currentExpression)
       => (~obs'.accepted /\ UNCHANGED <<engineVars, req>>)]_vars

\* C3: setExpression(IDLE, d) was called some time into the transition to
\* IDLE that follows the wakeup, and was dropped.
RedundantIdleDropped ==
  /\ obs.step = "api"
  /\ obs.input
  /\ ~obs.accepted
  /\ obs.cmd = IDLE
  /\ currentExpression = IDLE
  /\ inTransition
  /\ millis > transitionStartTime
  /\ leftEye # leftStart

\* C4 as stated: a command outside 0..13 read by handleSerial changes none
\* of the engine's globals (expressions, transition timer and flag, the
\* start, target and rendered eyes, demo_mode, autoBlink, the blink and
\* demo timers).  (Line 314 keeps only the int part of the number read.)
InvalidCommandIgnored ==
  [][(obs'.step = "serial" /\ obs'.input /\ obs'.cmd \notin 0..13)
       => (~obs'.accepted /\ UNCHANGED <<engineVars, req, commanded>>)]_vars

\* C4: on a board with a 16-bit int handleSerial has read 65539 during the
\* wakeup: the command was taken for 3, ANGRY is in transition at 200 ms
\* and the demo is off.
WideCommandAccepted ==
  /\ obs.step = "serial"
  /\ obs.input
  /\ obs.cmd = 65539
  /\ obs.accepted
  /\ build.int = 16
  /\ req.by = "serial"
  /\ req.exp = ANGRY
  /\ req.from = WAKEUP
  /\ currentExpression = ANGRY
  /\ inTransition
  /\ transitionDuration = 200
  /\ ~demo_mode

\* C5: once handleSerial has read a command it takes for one of 0..13, accepted by
\* setExpression or not, demo_mode is false and no frame's handleDemo
\* requests an expression.
CommandSilencesDemo == commanded => (~demo_mode /\ ~obs.fired)

\* C5: after a command, a frame ran with the engine steady and the demo
\* timer long expired, and handleDemo did nothing.
DemoSilentWhenDue ==
  /\ commanded
  /\ obs.step = "frame"
  /\ obs.at > nextDemoTime
  /\ ~obs.completed
  /\ ~obs.blinked
  /\ ~inTransition
  /\ ~obs.fired

\* C6: while ASLEEP is the current expression no frame's auto-blink requests
\* BLINK, however long ago the last blink was; the engine leaves ASLEEP only
\* through an accepted request from outside or the demo trigger.
NoBlinkWhileAsleep ==
  [][currentExpression = ASLEEP =>
       /\ ~obs'.blinked
       /\ req'.by # "autoblink" \/ req' = req
       /\ \/ currentExpression' = ASLEEP
          \/ obs'.step = "frame" /\ obs'.fired
          \/ obs'.input /\ obs'.accepted]_vars

\* C6: a frame found the blink timer expired with the engine steady in
\* ASLEEP, and requested nothing.
TimerExpiredAsleep ==
  /\ obs.step = "frame"
  /\ obs.expired
  /\ ~obs.blinked
  /\ currentExpression = ASLEEP
  /\ ~inTransition
  /\ lastBlinkTime = obs.at

\* The step is a frame that ticks a transition requested through
\* setExpression with a duration above zero; no request was accepted since.
TickOfApiRequest ==
  /\ pc = "frame"
  /\ req.by = "api"
  /\ req.duration > 0
  /\ inTransition

\* What the tick at the start time, and the first tick d or more later, do
\* to a request whose transition is to last d.
Boundaries(d) ==
  /\ obs'.at = req.at =>
       /\ leftEye' = req.startL /\ rightEye' = req.startR
       /\ ~obs'.completed
  /\ obs'.at - req.at >= d =>
       /\ leftEye' = req.targetL /\ rightEye' = req.targetR
       /\ obs'.completed /\ obs'.done = req.exp

\* C7 (as the code has it): for a request accepted with duration D > 0 the
\* tick at the start time renders the start snapshot, and the first tick at
\* which the duration in force has elapsed (75 ms for BLINK, 500 ms for
\* WAKEUP, D for the other twelve) renders the request's targets exactly and
\* completes the transition; the targets stay rendered while the engine is
\* steady afterwards.
TransitionBoundaries ==
  [][/\ TickOfApiRequest =>
          Boundaries(IF req.exp = BLINK THEN 75 ELSE IF req.exp = WAKEUP THEN 500 ELSE req.duration)
     /\ (req.by = "api" /\ ~inTransition) =>
          (leftEye = req.targetL /\ rightEye = req.targetR)]_vars

\* C7 as stated: the tick at start + D or later renders the targets and
\* completes the transition, for all 14 expressions.
TransitionBoundariesAtD ==
  [][TickOfApiRequest => Boundaries(req.duration)]_vars

\* C7: setExpression(HAPPY, 100) interrupted a transition; the tick exactly
\* 100 ms later snapped both eyes to HAPPY's targets and left the engine
\* steady.
HappySnappedAt100 ==
  /\ obs.step = "frame"
  /\ obs.completed
  /\ obs.done = HAPPY
  /\ req.by = "api"
  /\ req.mid
  /\ req.duration = 100
  /\ obs.at = req.at + 100
  /\ leftEye = req.targetL
  /\ rightEye = req.targetR
  /\ leftEye # req.startL
  /\ ~inTransition

\* C8 (as the code has it): after setExpression(exp, d) with d > 0 is
\* accepted the duration in force is d for twelve expressions, but 75 ms
\* for BLINK and 500 ms for WAKEUP whatever d is: the catalog overrides the
\* argument.
CatalogDurationWins ==
  [][(obs'.step = "api" /\ obs'.accepted /\ obs'.cmd = req'.exp /\ req'.duration > 0) =>
       transitionDuration' = IF req'.exp = BLINK THEN 75
                             ELSE IF req'.exp = WAKEUP THEN 500
                             ELSE req'.duration]_vars

\* C8 as stated: the duration in force equals the argument d for all 14
\* expressions.
ExplicitDurationWins ==
  [][(obs'.step = "api" /\ obs'.accepted /\ obs'.cmd = req'.exp /\ req'.duration > 0) =>
       transitionDuration' = req'.duration]_vars

\* C8: setExpression(BLINK, 100) was accepted and the duration in force is
\* 75 ms.
BlinkRequestedAt100 ==
  /\ obs.step = "api"
  /\ obs.accepted
  /\ req.by = "api"
  /\ req.exp = BLINK
  /\ req.duration = 100
  /\ currentExpression = BLINK
  /\ inTransition
  /\ transitionDuration = 75

\* C9 as stated: with autoBlink configured false no auto-triggered BLINK is
\* ever requested.  (handleSerial sets autoBlink = true on every valid
\* command, line 318.)
AutoBlinkStaysOff == ~autoBlinkCfg => (~obs.blinked /\ req.by # "autoblink")

\* C9: configured off, autoBlink is on again after a serial command and the
\* blink timer has fired a BLINK.
AutoBlinkBackOn ==
  /\ ~autoBlinkCfg
  /\ commanded
  /\ autoBlink
  /\ obs.blinked
  /\ req.by = "autoblink"
  /\ currentExpression = BLINK

\* C10 as stated: whenever a transition is in progress its duration, an
\* unsigned long, is above zero.  (setExpression stores the argument as
\* given, line 153.)
DurationPositive == inTransition => ULongValueGeq(transitionDuration, 1)

\* C10: setExpression(HAPPY, 0) was accepted and a transition of duration 0
\* is in progress.
ZeroDurationStored ==
  /\ obs.step = "api"
  /\ obs.accepted
  /\ req.exp = HAPPY
  /\ req.duration = 0
  /\ inTransition
  /\ transitionDuration = 0

Abs(n) == IF n < 0 THEN -n ELSE n

\* The pupil p drawn for the eye s lies within 0.45 * min(halfWidth,
\* halfHeight) of the centre, the half-dimensions being those of the eye's
\* size (s.w / 2 and s.h / 2 as integers, before the lid reduces the
\* height): pdx^2 + pdy^2 <= (45 / 100)^2 * min^2, that is 400 * (pdx^2 +
\* pdy^2) <= 81 * min^2.
WithinRadius(s, p) ==
  400 * (p.pdx * p.pdx + p.pdy * p.pdy)
    <= 81 * Smaller(s.w \div 2, s.h \div 2) * Smaller(s.w \div 2, s.h \div 2)

\* The pupil p is drawn where drawEye's clamp puts it: each offset is within
\* pupilMax, which is at least 1 and otherwise 0.45 times the smaller
\* half-dimension of the shape drawn, and an offset within that limit is
\* drawn as it is.
ClampedToShape(s, p) ==
  /\ p.pupilMax >= 1
  /\ 100 * p.pupilMax <= AtLeast(45 * Smaller(p.rx, p.visible_ry), 100)
  /\ Abs(p.pdx) <= p.pupilMax /\ Abs(p.pdy) <= p.pupilMax
  /\ Abs(s.pupil_dx) <= p.pupilMax => p.pdx = s.pupil_dx
  /\ Abs(s.pupil_dy) <= p.pupilMax => p.pdy = s.pupil_dy

\* C11: in every rendered frame the pupil offset drawn by drawEye for
\* either eye, as a distance from the centre, is within 0.45 *
\* min(halfWidth, halfHeight) of that eye, and it is the eye's offset
\* clamped to the shape drawn, whichever way the height is evaluated.
PupilClamp ==
  \A wide \in BOOLEAN :
    /\ WithinRadius(leftEye, drawEye(leftEye, wide))
    /\ WithinRadius(rightEye, drawEye(rightEye, wide))
    /\ ClampedToShape(leftEye, drawEye(leftEye, wide))
    /\ ClampedToShape(rightEye, drawEye(rightEye, wide))

\* C11: a frame rendered BORED, whose pupil offsets (3, 3) exceed the 2
\* pixels the half-closed shape allows and are drawn as (2, 2): 2.83 pixels
\* from the centre, with 0.45 * min(18, 12) = 5.4.
BoredPupilClamped ==
  /\ obs.step = "frame"
  /\ currentExpression = BORED
  /\ ~inTransition
  /\ leftEye.pupil_dx = 3 /\ leftEye.pupil_dy = 3
  /\ leftEye.w \div 2 = 18 /\ leftEye.h \div 2 = 12
  /\ drawEye(leftEye, TRUE).pupilMax = 2
  /\ drawEye(leftEye, TRUE).pdx = 2
  /\ drawEye(leftEye, TRUE).pdy = 2
  /\ drawEye(leftEye, FALSE).pdx = 2
  /\ drawEye(rightEye, TRUE).pdy = 2

\* The step is a frame that ticks the transition in progress at exactly
\* half of its duration, so that t = 0.5.
MidpointTick ==
  /\ pc = "frame"
  /\ inTransition
  /\ 2 * (obs'.at - transitionStartTime) = transitionDuration

\* (a + b) / 2, truncated toward zero as a cast to int16_t does.
HalfSum(a, b) == IF a + b < 0 THEN -((-(a + b)) \div 2) ELSE (a + b) \div 2

\* The binary32 nearest to the midpoint of the floats a and b.
FMid(a, b) == FDiv(FAdd(a, b), FromInt(2))

\* The integer fields of the eye e are the exact midpoints of from and to.
IntsAtMidpoint(e, from, to) ==
  /\ 2 * e.x = from.x + to.x
  /\ 2 * e.y = from.y + to.y
  /\ 2 * e.w = from.w + to.w
  /\ 2 * e.h = from.h + to.h
  /\ 2 * e.pupil_dx = from.pupil_dx + to.pupil_dx
  /\ 2 * e.pupil_dy = from.pupil_dy + to.pupil_dy

\* The integer fields of the eye e are the midpoints of from and to with the
\* half pixel dropped.
IntsAtHalfSum(e, from, to) ==
  /\ e.x = HalfSum(from.x, to.x)
  /\ e.y = HalfSum(from.y, to.y)
  /\ e.w = HalfSum(from.w, to.w)
  /\ e.h = HalfSum(from.h, to.h)
  /\ e.pupil_dx = HalfSum(from.pupil_dx, to.pupil_dx)
  /\ e.pupil_dy = HalfSum(from.pupil_dy, to.pupil_dy)

\* The float fields of the eye e are the midpoints of from and to, as near
\* as binary32 has them.
FloatsAtMidpoint(e, from, to) ==
  /\ e.lid = FMid(from.lid, to.lid)
  /\ e.intensity = FMid(from.intensity, to.intensity)

\* The floats a and b differ by 2^-23 at most (their difference is exact,
\* being that of neighbours).
FClose(a, b) ==
  \/ a = b
  \/ FSub(a, b)[3] <= -47
  \/ FSub(a, b)[3] = -46 /\ FSub(a, b)[2] = 8388608

\* The float fields of the eye e are within 2^-23 of the midpoints.
FloatsNearMidpoint(e, from, to) ==
  /\ FClose(e.lid, FMid(from.lid, to.lid))
  /\ FClose(e.intensity, FMid(from.intensity, to.intensity))

\* C12 (as the code has it): the tick at exactly half of the duration sets
\* every integer field of both rendered eyes to (start + target) / 2 with
\* the fraction dropped (the cast to int16_t truncates toward zero), and lid
\* and intensity to start + (target - start) * 0.5 as binary32 computes it,
\* which is within 2^-23 of (start + target) / 2 but not always the nearest
\* float to it.
MidpointTruncated ==
  [][MidpointTick =>
       /\ IntsAtHalfSum(leftEye', leftStart, leftTarget)
       /\ IntsAtHalfSum(rightEye', rightStart, rightTarget)
       /\ FloatsNearMidpoint(leftEye', leftStart, leftTarget)
       /\ FloatsNearMidpoint(rightEye', rightStart, rightTarget)]_vars

\* C12 as stated: at t = 0.5 every numeric field of both rendered eyes is
\* (start + target) / 2.
MidpointExact ==
  [][MidpointTick =>
       /\ IntsAtMidpoint(leftEye', leftStart, leftTarget)
       /\ IntsAtMidpoint(rightEye', rightStart, rightTarget)
       /\ FloatsAtMidpoint(leftEye', leftStart, leftTarget)
       /\ FloatsAtMidpoint(rightEye', rightStart, rightTarget)]_vars

\* C12 as stated, for the integer fields alone.
MidpointExactInts ==
  [][MidpointTick =>
       /\ IntsAtMidpoint(leftEye', leftStart, leftTarget)
       /\ IntsAtMidpoint(rightEye', rightStart, rightTarget)]_vars

\* C12: the tick 100 ms into a 200 ms transition from the closed eyes to
\* HAPPY rendered pupil_dy = -1 between 0 and -3, and an intensity one unit
\* in the last place below the float nearest to the midpoint.
HappyMidpointRendered ==
  /\ obs.step = "frame"
  /\ inTransition
  /\ currentExpression = HAPPY
  /\ 2 * (obs.at - transitionStartTime) = transitionDuration
  /\ leftStart.pupil_dy = 0
  /\ leftTarget.pupil_dy = -3
  /\ leftEye.pupil_dy = -1
  /\ leftEye.lid = FMid(leftStart.lid, leftTarget.lid)
  /\ leftEye.intensity # FMid(leftStart.intensity, leftTarget.intensity)

\* The transition in flight is left as it is by the step.
TransitionKept ==
  /\ inTransition'
  /\ currentExpression' = currentExpression
  /\ previousExpression' = previousExpression
  /\ transitionStartTime' = transitionStartTime
  /\ transitionDuration' = transitionDuration
  /\ leftStart' = leftStart /\ rightStart' = rightStart
  /\ leftTarget' = leftTarget /\ rightTarget' = rightTarget
  /\ req' = req

\* C13: the demo trigger and the auto-blink trigger issue no request while
\* a transition is in flight: a pass of loop() that finds a transition in
\* flight fires no demo, blinks only if that transition has just completed
\* without a chain, and leaves the transition as it is unless it completes;
\* every request that interrupted a transition came from the serial line.
AutonomousTriggersGated ==
  [][/\ pc = "frame" /\ inTransition =>
          /\ ~obs'.fired
          /\ obs'.blinked => obs'.steady
          /\ ~obs'.completed => TransitionKept
     /\ obs'.blinked => ~obs'.fired
     /\ req'.mid => req'.by = "serial"]_vars

\* C13: a pass of loop() has found the demo due and the blink timer past
\* its delay while a transition was in flight, and has fired neither.
TriggersHeldBack ==
  /\ obs.step = "frame"
  /\ demo_mode
  /\ obs.at > nextDemoTime
  /\ obs.at > lastBlinkTime + nextBlinkDelay
  /\ inTransition
  /\ ~obs.completed
  /\ ~obs.fired
  /\ ~obs.blinked

\* C13: a serial command has overwritten a transition in flight.
SerialInterrupted == req.by = "serial" /\ req.mid

\* The step is a call setExpression(Y, d) from user code with Y different
\* from currentExpression while a transition is in flight.
OverwriteCall ==
  /\ obs'.step = "api"
  /\ inTransition
  /\ obs'.cmd # currentExpression

\* C14: a request for an expression other than currentExpression made while
\* a transition is in flight is accepted, takes the rendered eyes as the
\* start snapshot and restarts the timer at the time of the request; the
\* transition that completes is always that of the latest accepted request,
\* and a chained request always follows the completion of the latest
\* accepted request, so an overwritten transition neither completes nor
\* chains.
OverwriteCancels ==
  [][/\ OverwriteCall =>
          /\ obs'.accepted
          /\ currentExpression' = obs'.cmd
          /\ leftStart' = leftEye /\ rightStart' = rightEye
          /\ leftEye' = leftEye /\ rightEye' = rightEye
          /\ transitionStartTime' = millis
          /\ inTransition'
          /\ req'.mid /\ req'.at = millis /\ req'.from = currentExpression
     /\ obs'.completed =>
          /\ obs'.done = req.exp
          /\ transitionStartTime = req.at
          /\ leftTarget = req.targetL /\ rightTarget = req.targetR
     /\ (req' # req /\ req'.by = "chain") =>
          /\ obs'.completed
          /\ req'.from = req.exp
          /\ ChainRule(req.exp, previousExpression) # <<>>]_vars

\* C14: a BLINK was overwritten before it finished, the transition that
\* replaced it has completed, and no return to the previous expression was
\* issued.
OverwrittenBlinkNeverReturned ==
  /\ obs.step = "frame"
  /\ obs.completed
  /\ obs.chained = 0
  /\ ~inTransition
  /\ req.by = "api"
  /\ req.mid
  /\ req.from = BLINK
  /\ obs.done = req.exp
  /\ req.startL.lid # FromInt(1)
  /\ req.startL.lid # leftEye.lid

StartupOver ==
  /\ req.by # "setup"
  /\ ~(req.by = "chain" /\ req.from = WAKEUP /\ inTransition)

\* C16 as stated: with no serial command ever received, currentExpression is
\* neither ASLEEP nor WAKEUP once the startup sequence has completed.  (The
\* demo requests SLEEPY, index 11, and the completion of SLEEPY chains into
\* ASLEEP, lines 267-269.)
DemoNeverRests ==
  (~commanded /\ demo_mode /\ StartupOver) =>
     (currentExpression # ASLEEP /\ currentExpression # WAKEUP)

\* C16: the demo has requested SLEEPY, SLEEPY has completed and chained, and
\* the eyes have come to rest in ASLEEP with the demo still on.
DemoFellAsleep ==
  /\ ~commanded
  /\ demo_mode
  /\ StartupOver
  /\ demo_index = SLEEPY
  /\ req.by = "chain"
  /\ req.from = SLEEPY
  /\ currentExpression = ASLEEP
  /\ ~inTransition
  /\ obs.completed
  /\ obs.done = ASLEEP

\* C16, the half that holds: with no serial command ever received, WAKEUP
\* is never the current expression again after the startup sequence.
DemoNeverWakesUp ==
  (~commanded /\ demo_mode /\ StartupOver) => currentExpression # WAKEUP

\* No serial command can arrive any more.
NoMoreCommands == cmds = MaxCmds

\* The first multiple of dt at or after the time start + d: with passes of
\* loop() every dt ms from 0, the first pass that starts when a transition
\* of d ms begun at start is over.
CompletionPass(start, d, dt) == ((start + d + dt - 1) \div dt) * dt

\* The duration setExpression stores for the request (exp, d).
StoredDuration(exp, d) == IF exp = BLINK THEN 75 ELSE IF exp = WAKEUP THEN 500 ELSE d

\* The pass of loop() that completes, at the latest, the last transition
\* chained to a transition into cur that started at start and lasts d ms
\* (at most n more transitions): a pass completes a transition when its
\* tick is d ms or more past the start, and a chained transition starts at
\* that tick or one clock tick later.
RECURSIVE RestPass(_, _, _, _, _, _)
RestPass(cur, prev, start, d, dt, n) ==
  IF n = 0 \/ ChainRule(cur, prev) = <<>> THEN CompletionPass(start, d, dt)
  ELSE RestPass(ChainRule(cur, prev)[1].exp, ChainRule(cur, prev)[1].exp,
                CompletionPass(start, d, dt) + Tick,
                StoredDuration(ChainRule(cur, prev)[1].exp, ChainRule(cur, prev)[1].duration),
                dt, n - 1)

\* The time from start to the pass that completes the transition, and to
\* the pass that completes the last transition chained to it.
Ticks(start, d, dt) == CompletionPass(start, d, dt) - start

RestTime(cur, prev, start, d, dt, n) == RestPass(cur, prev, start, d, dt, n) - start

\* loop() is still running when the transition in flight is due to complete.
RoomToComplete ==
  \E dt \in LiveSteps :
     transitionStartTime + Ticks(transitionStartTime, transitionDuration, dt) + dt <= MaxTime

\* loop() is still running when the last transition chained to the one in
\* flight is due to complete.
RoomToRest ==
  \E dt \in LiveSteps :
     transitionStartTime
       + RestTime(currentExpression, previousExpression,
                  transitionStartTime, transitionDuration, dt, 3)
       + dt <= MaxTime

\* At rest, the current expression is none of the three that chain.
RestsOutsideChains ==
  ~inTransition =>
     (currentExpression # BLINK /\ currentExpression # WAKEUP /\ currentExpression # SLEEPY)

\* C17: with loop() running and no further serial command, the transition
\* in flight into any expression e reaches its completion step, the engine
\* comes to rest after the transitions chained to it, and it never rests in
\* BLINK, WAKEUP or SLEEPY.
TransitionsComplete ==
  /\ \A e \in Expressions :
        (inTransition /\ currentExpression = e /\ NoMoreCommands /\ RoomToComplete)
           ~> (obs.completed /\ obs.done = e)
  /\ (inTransition /\ ~obs.steady /\ NoMoreCommands /\ RoomToRest) ~> obs.steady
  /\ []RestsOutsideChains

\* C17: SLEEPY was commanded, has completed and chained into ASLEEP, and
\* ASLEEP has completed: the engine rests asleep.
SleepyChainCameToRest ==
  /\ NoMoreCommands
  /\ obs.cmd = 0
  /\ obs.step = "frame"
  /\ obs.completed
  /\ obs.steady
  /\ obs.done = ASLEEP
  /\ req.by = "chain"
  /\ req.from = SLEEPY
  /\ req.prevBy = "serial"
  /\ ~inTransition
  /\ leftEye = leftTarget

\* C18: previousExpression is never BLINK; it equals currentExpression
\* whenever that is not BLINK, and during a BLINK it is the expression the
\* blink was requested from; it is the latest accepted request other than
\* BLINK, and a completed BLINK never chains into BLINK.
BlinkReturnAnchor ==
  /\ previousExpression # BLINK
  /\ currentExpression # BLINK => previousExpression = currentExpression
  /\ req.exp # BLINK => previousExpression = req.exp
  /\ req.exp = BLINK => (currentExpression = BLINK /\ previousExpression = req.from)
  /\ (obs.completed /\ obs.done = BLINK) =>
        (currentExpression # BLINK /\ req.by = "chain" /\ req.exp = previousExpression)

\* C18: a BLINK requested over SAD has completed and chained back into SAD,
\* the anchor.
BlinkChainedToAnchor ==
  /\ obs.step = "frame"
  /\ obs.completed
  /\ obs.done = BLINK
  /\ obs.chained = 1
  /\ req.by = "chain"
  /\ req.from = BLINK
  /\ req.exp = SAD
  /\ currentExpression = SAD
  /\ previousExpression = SAD
  /\ inTransition

\* The step is one in which a request for BLINK is accepted: a serial
\* command, a call from user code, the auto-blink or the demo at index 5.
BlinkAccepted ==
  \/ obs'.input /\ obs'.accepted /\ req'.exp = BLINK
  \/ obs'.blinked
  \/ obs'.fired /\ demo_index' = BLINK

\* C19: an accepted request for BLINK sets the lid of both targets to 1.0
\* and leaves every other field of both targets, and previousExpression,
\* as they were.
BlinkInPlace ==
  [][BlinkAccepted =>
       /\ leftTarget' = [leftTarget EXCEPT !.lid = FromInt(1)]
       /\ rightTarget' = [rightTarget EXCEPT !.lid = FromInt(1)]
       /\ previousExpression' = previousExpression
       /\ currentExpression' = BLINK
       /\ req'.exp = BLINK]_vars

\* C19: a serial BLINK has been accepted during the WAKEUP transition: the
\* targets are those of WAKEUP with the lid closed, not the rendered eyes,
\* and WAKEUP is still the previous expression.
BlinkOverWakeupTarget ==
  /\ obs.step = "serial"
  /\ obs.cmd = BLINK
  /\ obs.accepted
  /\ req.mid
  /\ req.from = WAKEUP
  /\ currentExpression = BLINK
  /\ previousExpression = WAKEUP
  /\ leftTarget = setEyeState(CENTER_X_LEFT, CENTER_Y, REF_EYE_W, REF_EYE_H, 0, 0, FromInt(1), FLit(6, 10))
  /\ leftEye.h # leftTarget.h
  /\ transitionDuration = 75

\* What every firing of the auto-blink timer does: it comes when the now of
\* line 248 is past lastBlinkTime + nextBlinkDelay, lastBlinkTime becomes
\* that now and nextBlinkDelay a value in [3000, 7000); nothing else writes
\* lastBlinkTime; an auto-triggered BLINK request is made by a firing only,
\* and starts at that now or, the clock having ticked before line 152, one
\* tick after it.
TimerRearmed ==
  /\ obs'.expired =>
       /\ lastBlinkTime' = obs'.at
       /\ nextBlinkDelay' >= 3000 /\ nextBlinkDelay' < 7000
       /\ obs'.at > lastBlinkTime + nextBlinkDelay
  /\ lastBlinkTime' # lastBlinkTime => obs'.expired
  /\ obs'.blinked =>
       /\ obs'.expired
       /\ req'.by = "autoblink" /\ req'.exp = BLINK
       /\ req'.at = transitionStartTime'
       /\ req'.at >= obs'.at /\ req'.at <= obs'.at + Tick

\* C20 as stated: the timer is re-armed as above and an auto-triggered
\* BLINK request comes more than 3000 ms after the auto-triggered BLINK
\* request before it.
AutoBlinkSpacing ==
  [][/\ TimerRearmed
     /\ obs'.gap # -1 => obs'.gap > 3000]_vars

\* C20 (as the code has it): the timer is re-armed as above, its firings
\* are more than 3000 ms apart, and an auto-triggered BLINK request comes
\* more than 3000 ms, less the tick the clock may make between line 248 and
\* line 152, after the auto-triggered BLINK request before it: at least
\* 3000 ms with a tick of 1 ms.
AutoBlinkSpacingLessTick ==
  [][/\ TimerRearmed
     /\ obs'.expired => obs'.at > lastBlinkTime + 3000
     /\ obs'.blinked => (last.blinkAt >= 0 => obs'.at > last.blinkAt + 3000 - Tick)
     /\ obs'.gap # -1 => obs'.gap > 3000 - Tick]_vars

\* C20: two auto-triggered BLINK requests in a row whose starts are exactly
\* 3000 ms apart: the clock ticked between line 248 and line 152 of the
\* first, and the second came at the first tick past the 3000 ms of the
\* delay.
TwoAutoBlinks ==
  /\ obs.step = "frame"
  /\ obs.blinked
  /\ req.by = "autoblink"
  /\ currentExpression = BLINK
  /\ last.blinkAt = req.at
  /\ lastBlinkTime = obs.at
  /\ req.at = obs.at
  /\ obs.gap = 3000

=============================================================================
